---- MODULE Spec2Model ----
(***************************************************************************)
(* The active-series tracker (ActiveSeries and its activeSeriesStripe      *)
(* shards) as a state machine.  Every shared-memory access that another    *)
(* goroutine can interleave with is a step of its own: the atomic loads    *)
(* and compare-and-swaps of an entry's nanos and of a stripe's             *)
(* oldestEntryTs, and the acquisitions of the mutexes.  A critical section *)
(* that touches only data guarded by the mutex it holds is one step.       *)
(***************************************************************************)
EXTENDS Integers, Sequences, FiniteSets, TLC

\* ------------------------------------------------------------ bounds
\* The source has 512 stripes; the model keeps the selector fp % N and
\* uses a small N.
numActiveSeriesStripes == 2
\* Series (label sets) are 1..NumSeries.
NumSeries == 3
\* The `now` of UpdateSeries ranges over 1..MaxTime (Unix nanoseconds).
MaxTime == 3
\* c.timeout, the idle timeout given to NewActiveSeries.
IdleTimeout == 1
\* math.MaxInt64, as the top of the model's integers.
MaxInt64 == 2147483647

\* Concurrent callers use the times 1..RaceTime.
RaceTime == 2

Writers == {"w1", "w2"}
Admins == {"a1", "a2"}
Threads == Writers \cup Admins

Series == 1..NumSeries
Times == 1..MaxTime
\* What the injected clock c.now() can return: the cutoffs now - timeout then
\* range over 1..MaxTime+1.
ClockTimes == (1 + IdleTimeout)..(MaxTime + 1 + IdleTimeout)
Stripes == 0..(numActiveSeriesStripes - 1)

NilPtr == <<>>
NoThread == "none"
\* time.Time{}: the zero time is before every time of the clock.
ZeroTime == -1

Min(S) == CHOOSE x \in S : \A y \in S : x <= y
Max(S) == CHOOSE x \in S : \A y \in S : x >= y

\* ------------------------------------------------------------ dependencies
\* labels.Labels.Hash(): a fingerprint that is not injective.  Series 2k and
\* 2k+1 collide (2 and 3 do; 1 has a fingerprint of its own).
Hash(series) == 2 * (series \div 2)

StripeID(series) == Hash(series) % numActiveSeriesStripes

CollidingSeries == {l \in Series : Hash(l) = Hash(2)}

\* A *Matchers value is the sequence of its matchers, each modelled as the
\* set of series it matches.
OddMatchers == << {l \in Series : l % 2 = 1} >>
RangeMatchers == << {l \in Series : l <= 2}, {l \in Series : l >= 2} >>
MatcherSets == {OddMatchers, RangeMatchers}

MatcherNames(asm) == [i \in 1..Len(asm) |-> i]
Matches(asm, series) == [i \in 1..Len(asm) |-> series \in asm[i]]

\* The caller's deep copy of a label set.
labelsCopy(series) == series

\* resizeAndClear: a slice of l zeroes.  (Whether prev's backing array is
\* reused only decides an allocation.)
resizeAndClear(l, prev) == [i \in 1..l |-> 0]

\* A comparison of times that also holds of equal times.
NotBefore(t, u) == t >= u

\* time.Time.After
After(t, u) == t > u

\* ------------------------------------------------------------ state
VARIABLES
    stripes,             \* c.stripes: [matchers, oldestEntryTs, refs, active, activeMatching]
    stripeMu,            \* who holds the write lock of each stripe's mu
    cells,               \* the heap of *atomic.Int64 that entries' nanos point to
    matchers,            \* c.matchers
    lastMatchersUpdate,  \* c.lastMatchersUpdate
    mu,                  \* who holds c.mu
    pc,                  \* where each goroutine is
    frame,               \* each goroutine's arguments, locals and results
    env,                 \* the callers: who they are, what they call with, and
                         \* whether one at a time
    ghost                \* history: what the calls made so far were

vars ==
    <<stripes, stripeMu, cells, matchers, lastMatchersUpdate, mu, pc, frame, env, ghost>>

ZeroFrame ==
    [series |-> 0, now |-> 0, e |-> NilPtr, entryTimeSet |-> FALSE, prev |-> 0,
     prevOldest |-> 0, s |-> 0, keepUntil |-> 0, todo |-> {}, fp |-> 0,
     entries |-> <<>>, single |-> FALSE, i |-> 0, ts |-> 0, active |-> 0,
     oldest |-> 0, total |-> 0, totalMatching |-> <<>>, valid |-> FALSE,
     asm |-> <<>>, before |-> <<>>]

NewStripe(asm) ==
    [matchers |-> asm, oldestEntryTs |-> 0, refs |-> <<>>, active |-> 0,
     activeMatching |-> resizeAndClear(Len(MatcherNames(asm)), <<>>)]

\* NewActiveSeries(asm, IdleTimeout, now)
NewActiveSeries(asm) ==
    /\ stripes = [s \in Stripes |-> NewStripe(asm)]
    /\ stripeMu = [s \in Stripes |-> NoThread]
    /\ cells = <<>>
    /\ matchers = asm
    /\ lastMatchersUpdate = ZeroTime
    /\ mu = NoThread
    /\ pc = [t \in Threads |-> "idle"]
    /\ frame = [t \in Threads |-> ZeroFrame]

\* ghost.call: the call in flight or, when none is, the last one (kept for
\* serial callers).  base is the timestamp stored for the call's series when
\* the call started (for the other calls, the newest timestamp stored; 0 when
\* there is none); repeat says that the call before was UpdateSeries with the
\* same arguments, afterReload that the call is Active and the call before was
\* ReloadMatchers(asm); prior is then the base of the call before.
NoCall ==
    [op |-> "none", series |-> 0, now |-> 0, base |-> 0, prior |-> 0,
     existed |-> FALSE, repeat |-> FALSE, afterReload |-> FALSE, asm |-> <<>>]
\* ghost.hist: the series and the earliest time of the UpdateSeries calls made
\* since NewActiveSeries, while no other call was made (kept for serial callers).
NoHist == [seen |-> {}, minNow |-> 0, fresh |-> FALSE]
\* ghost.race: the UpdateSeries calls for one tracked series that ran while no
\* other call did (kept for racing writers): the timestamp stored before the
\* first of them, and the newest of their times.
NoRace == [series |-> 0, base |-> 0, maxNow |-> 0, calls |-> 0]
\* ghost.first: how many UpdateSeries calls have missed their series under the
\* read lock, and how many times labelsCopy has been called (kept for racing
\* writers).
NoFirst == [misses |-> 0, copies |-> 0]

Ghost(e) ==
    [call |-> NoCall,
     hist |-> IF e.serial THEN [seen |-> {}, minNow |-> MaxInt64, fresh |-> TRUE]
                          ELSE NoHist,
     race |-> NoRace,
     first |-> NoFirst]

\* Goroutines that call concurrently, for the series whose fingerprints
\* collide.
Init ==
    /\ env = [serial |-> FALSE, race |-> FALSE, callers |-> Writers \cup {"a1"},
              series |-> CollidingSeries, times |-> [l \in Series |-> 1..RaceTime],
              clock |-> {RaceTime + IdleTimeout}]
    /\ ghost = Ghost(env)
    /\ NewActiveSeries(OddMatchers)

\* One writer and two goroutines that call Active, ReloadMatchers and clear
\* concurrently, so that they contend for c.mu as well.
LockInit ==
    /\ env = [serial |-> FALSE, race |-> FALSE, callers |-> {"w1"} \cup Admins,
              series |-> CollidingSeries, times |-> [l \in Series |-> 1..RaceTime],
              clock |-> {RaceTime + IdleTimeout}]
    /\ ghost = Ghost(env)
    /\ NewActiveSeries(OddMatchers)

\* Goroutines that call concurrently, with any times for one of the series
\* whose fingerprints collide.
TimeInit ==
    /\ env = [serial |-> FALSE, race |-> FALSE, callers |-> Writers \cup {"a1"},
              series |-> CollidingSeries,
              times |-> [l \in Series |-> IF l = 2 THEN Times ELSE {RaceTime}],
              clock |-> {RaceTime + IdleTimeout}]
    /\ ghost = Ghost(env)
    /\ NewActiveSeries(OddMatchers)

\* Callers that make one call at a time, with any arguments.
SeqInit ==
    /\ env = [serial |-> TRUE, race |-> FALSE, callers |-> Writers \cup {"a1"},
              series |-> Series, times |-> [l \in Series |-> Times], clock |-> ClockTimes]
    /\ ghost = Ghost(env)
    /\ \E asm \in MatcherSets : NewActiveSeries(asm)

\* Writers that race on one series, with any times.
WriterInit ==
    /\ env = [serial |-> FALSE, race |-> TRUE, callers |-> Writers \cup {"a1"},
              series |-> {2}, times |-> [l \in Series |-> Times], clock |-> ClockTimes]
    /\ ghost = Ghost(env)
    /\ \E asm \in MatcherSets : NewActiveSeries(asm)

Quiet == \A t \in Threads : pc[t] = "idle"

\* A call may start when its goroutine is one of the callers and idle and,
\* for serial callers, no other call is in flight.
MayCall(t) == t \in env.callers /\ pc[t] = "idle" /\ (env.serial => Quiet)

\* ------------------------------------------------------------ heap
EntryCells(entries) == {entries[i].nanos : i \in 1..Len(entries)}

\* s.refs[fp]: nil when the map has no such key.
Chain(refs, fp) == IF fp \in DOMAIN refs THEN refs[fp] ELSE <<>>

\* delete(refs, fp)
Delete(refs, fp) == [f \in DOMAIN refs \ {fp} |-> refs[f]]

\* refs[fp] = entries
Put(refs, fp, entries) ==
    [f \in DOMAIN refs \cup {fp} |-> IF f = fp THEN entries ELSE refs[f]]

\* The cells some entry or some goroutine still points to.
Reachable(strs, frm) ==
    UNION {UNION {EntryCells(strs[s].refs[fp]) : fp \in DOMAIN strs[s].refs} :
              s \in Stripes}
    \cup UNION {EntryCells(frm[t].entries) : t \in Threads}
    \cup ({frm[t].e : t \in Threads} \ {NilPtr})

\* The garbage collector: a cell nothing points to is gone.
Collect(cs, strs, frm) == [p \in DOMAIN cs \cap Reachable(strs, frm) |-> cs[p]]

\* atomic.NewInt64: a fresh cell.  An address is a pair <<series, k>>: the
\* k-th cell in use that was made for an entry of that series.
NewCell(cs, series) ==
    <<series, Min({k \in 1..(Cardinality(DOMAIN cs) + 1) : <<series, k>> \notin DOMAIN cs})>>

\* ------------------------------------------------------------ history
\* The timestamps stored in the entries of all stripes.
StoredTimes ==
    {cells[p] : p \in UNION {UNION {EntryCells(stripes[s].refs[fp]) :
                                       fp \in DOMAIN stripes[s].refs} : s \in Stripes}}

\* A stripe's chains with the timestamp that each entry holds.
Snapshot(refs) ==
    [fp \in DOMAIN refs |->
        [i \in 1..Len(refs[fp]) |-> [entry |-> refs[fp][i], ts |-> cells[refs[fp][i].nanos]]]]

\* The call before was UpdateSeries(series, now).
Repeats(series, now) ==
    /\ ghost.call.op = "UpdateSeries"
    /\ ghost.call.series = series
    /\ ghost.call.now = now

\* ghost after UpdateSeries(series, now) has started and found e.
GhostUpdateSeries(series, now, e) ==
    [call |-> IF env.serial
              THEN [op |-> "UpdateSeries", series |-> series, now |-> now,
                    base |-> IF e = NilPtr THEN 0 ELSE cells[e],
                    prior |-> IF Repeats(series, now) THEN ghost.call.base ELSE 0,
                    existed |-> e # NilPtr,
                    repeat |-> Repeats(series, now),
                    afterReload |-> FALSE,
                    asm |-> <<>>]
              ELSE NoCall,
     hist |-> IF ghost.hist.fresh
              THEN [ghost.hist EXCEPT !.seen = @ \cup {series},
                                      !.minNow = IF now < @ THEN now ELSE @]
              ELSE NoHist,
     race |-> IF ~env.race THEN NoRace
              ELSE IF Quiet
              THEN IF e = NilPtr THEN NoRace
                   ELSE [series |-> series, base |-> cells[e], maxNow |-> now,
                         calls |-> 1]
              ELSE IF ghost.race # NoRace /\ ghost.race.series = series
              THEN [ghost.race EXCEPT !.maxNow = IF now > @ THEN now ELSE @,
                                      !.calls = 2]
              ELSE NoRace,
     first |-> IF env.race /\ e = NilPtr
               THEN [ghost.first EXCEPT !.misses = @ + 1]
               ELSE ghost.first]

\* The call before was ReloadMatchers.
AfterReload == ghost.call.op = "ReloadMatchers"

\* ghost after a call of Active, ReloadMatchers(asm) or clear has started.
GhostCall(op, asm) ==
    [call |-> IF env.serial
              THEN [NoCall EXCEPT !.op = op,
                                  !.base = IF op = "clear" \/ StoredTimes = {} THEN 0
                                           ELSE Max(StoredTimes),
                                  !.prior = IF op = "Active" /\ AfterReload
                                            THEN ghost.call.base ELSE 0,
                                  !.afterReload = (op = "Active" /\ AfterReload),
                                  !.asm = IF op = "ReloadMatchers" THEN asm
                                          ELSE IF op = "Active" /\ AfterReload
                                          THEN ghost.call.asm ELSE <<>>]
              ELSE NoCall,
     hist |-> IF op = "Active" THEN ghost.hist ELSE NoHist,
     race |-> NoRace,
     first |-> ghost.first]

\* ghost after labelsCopy has been called.
GhostCopy ==
    IF env.race THEN [ghost EXCEPT !.first.copies = @ + 1] ELSE ghost

\* ------------------------------------------------------------ UpdateSeries
\* The goroutine returns to its caller and drops its locals.
Return(t, cs, strs) ==
    LET frm == [frame EXCEPT ![t] = ZeroFrame] IN
    /\ pc' = [pc EXCEPT ![t] = "idle"]
    /\ frame' = frm
    /\ cells' = Collect(cs, strs, frm)

\* A lookup that finds no entry, so that every call inserts one.
LookupNothing(entries, series) == NilPtr

\* The nanos of the first entry of the chain whose labels equal series.
Lookup(entries, series) ==
    LET hits == {i \in 1..Len(entries) : entries[i].lbs = series} IN
    IF hits = {} THEN NilPtr ELSE entries[Min(hits)].nanos

\* UpdateSeries(series, now, labelsCopy) up to the end of findEntryForSeries,
\* which looks the series up under the stripe's read lock.
UpdateSeries(t) ==
    /\ t \in Writers
    /\ MayCall(t)
    /\ \E series \in env.series : \E now \in env.times[series] :
          LET fp == Hash(series)
              s == StripeID(series)
              e == Lookup(Chain(stripes[s].refs, fp), series) IN
          /\ stripeMu[s] = NoThread
          /\ frame' = [frame EXCEPT ![t] = [ZeroFrame EXCEPT !.series = series,
                                                           !.now = now,
                                                           !.fp = fp,
                                                           !.s = s,
                                                           !.e = e]]
          /\ pc' = [pc EXCEPT ![t] = IF e = NilPtr THEN "findOrCreateEntryForSeries"
                                                   ELSE "loadEntry"]
          /\ ghost' = GhostUpdateSeries(series, now, e)
    /\ UNCHANGED <<stripes, stripeMu, cells, matchers, lastMatchersUpdate, mu, env>>

\* s.activeMatching[i]++ for every matcher the series matches.
AddMatching(activeMatching, matches) ==
    [i \in DOMAIN activeMatching |->
        IF i \in DOMAIN matches /\ matches[i] THEN activeMatching[i] + 1
                                              ELSE activeMatching[i]]

\* An insertion that evaluates the matchers of the tracker, c.matchers, in
\* place of the stripe's.
InsertWithTrackerMatchers(st, fp, series, cell) ==
    LET matches == Matches(matchers, series)
        e == [lbs |-> labelsCopy(series), nanos |-> cell, matches |-> matches] IN
    [st EXCEPT !.active = @ + 1,
               !.activeMatching = AddMatching(@, matches),
               !.refs = Put(@, fp, Append(Chain(@, fp), e))]

\* An insertion that leaves s.active as it was.
InsertUncounted(st, fp, series, cell) ==
    LET matches == Matches(st.matchers, series)
        e == [lbs |-> labelsCopy(series), nanos |-> cell, matches |-> matches] IN
    [st EXCEPT !.activeMatching = AddMatching(@, matches),
               !.refs = Put(@, fp, Append(Chain(@, fp), e))]

\* The stripe after findOrCreateEntryForSeries has appended a new entry.
Insert(st, fp, series, cell) ==
    LET matches == Matches(st.matchers, series)
        e == [lbs |-> labelsCopy(series), nanos |-> cell, matches |-> matches] IN
    [st EXCEPT !.active = @ + 1,
               !.activeMatching = AddMatching(@, matches),
               !.refs = Put(@, fp, Append(Chain(@, fp), e))]

\* A second lookup that finds nothing.
NoRecheck(entries, series) == NilPtr

\* findOrCreateEntryForSeries, the lookup repeated under the write lock.
Recheck(entries, series) == Lookup(entries, series)

\* findOrCreateEntryForSeries: under the stripe's write lock.
findOrCreateEntryForSeries(t) ==
    LET f == frame[t]
        e == Recheck(Chain(stripes[f.s].refs, f.fp), f.series)
        cell == NewCell(cells, f.series) IN
    /\ pc[t] = "findOrCreateEntryForSeries"
    /\ stripeMu[f.s] = NoThread
    /\ IF e # NilPtr
       THEN /\ frame' = [frame EXCEPT ![t].e = e, ![t].entryTimeSet = FALSE]
            /\ pc' = [pc EXCEPT ![t] = "loadEntry"]
            /\ UNCHANGED <<stripes, cells, ghost>>
       ELSE /\ stripes' = [stripes EXCEPT ![f.s] = Insert(@, f.fp, f.series, cell)]
            /\ cells' = [p \in DOMAIN cells \cup {cell} |->
                            IF p = cell THEN f.now ELSE cells[p]]
            /\ frame' = [frame EXCEPT ![t].entryTimeSet = TRUE]
            /\ pc' = [pc EXCEPT ![t] = "loadOldest"]
            /\ ghost' = GhostCopy
    /\ UNCHANGED <<stripeMu, matchers, lastMatchersUpdate, mu, env>>

\* A test that lets the time that is stored already through as well.
AdvancesOrEqual(now, prev) == now >= prev

\* A test that lets every time through.
AnyTime(now, prev) == TRUE

\* A test that lets every other time through, an earlier one too.
Differs(now, prev) == now # prev

\* if prev := e.Load(); nowNanos > prev
Advances(now, prev) == now > prev

\* updateSeriesTimestamp, e.Load()
loadEntry(t) ==
    LET f == frame[t]
        prev == cells[f.e] IN
    /\ pc[t] = "loadEntry"
    /\ IF Advances(f.now, prev)
       THEN /\ frame' = [frame EXCEPT ![t].prev = prev]
            /\ pc' = [pc EXCEPT ![t] = "casEntry"]
            /\ UNCHANGED cells
       ELSE Return(t, cells, stripes)
    /\ UNCHANGED <<stripes, stripeMu, matchers, lastMatchersUpdate, mu, env, ghost>>

\* updateSeriesTimestamp, entryTimeSet = e.CAS(prev, nowNanos)
casEntry(t) ==
    LET f == frame[t] IN
    /\ pc[t] = "casEntry"
    /\ IF cells[f.e] = f.prev
       THEN /\ frame' = [frame EXCEPT ![t].entryTimeSet = TRUE,
                                      ![t].e = NilPtr,
                                      ![t].prev = 0]
            /\ cells' = Collect([cells EXCEPT ![f.e] = f.now], stripes, frame')
            /\ pc' = [pc EXCEPT ![t] = "loadOldest"]
       ELSE Return(t, cells, stripes)
    /\ UNCHANGED <<stripes, stripeMu, matchers, lastMatchersUpdate, mu, env, ghost>>

\* The condition of the loop: nowNanos < prevOldest
Invalidates(now, prevOldest) == now < prevOldest

\* updateSeriesTimestamp, prevOldest := s.oldestEntryTs.Load()
loadOldest(t) ==
    LET f == frame[t]
        prevOldest == stripes[f.s].oldestEntryTs IN
    /\ pc[t] = "loadOldest"
    /\ IF Invalidates(f.now, prevOldest)
       THEN /\ frame' = [frame EXCEPT ![t].prevOldest = prevOldest]
            /\ pc' = [pc EXCEPT ![t] = "casOldest"]
            /\ UNCHANGED cells
       ELSE Return(t, cells, stripes)
    /\ UNCHANGED <<stripes, stripeMu, matchers, lastMatchersUpdate, mu, env, ghost>>

\* updateSeriesTimestamp, s.oldestEntryTs.CAS(prevOldest, 0): on success the
\* loop breaks; on failure the loop tests nowNanos < prevOldest again with the
\* prevOldest it has (the for statement has no post statement that reloads it).
casOldest(t) ==
    LET f == frame[t] IN
    /\ pc[t] = "casOldest"
    /\ IF stripes[f.s].oldestEntryTs = f.prevOldest
       THEN /\ stripes' = [stripes EXCEPT ![f.s].oldestEntryTs = 0]
            /\ Return(t, cells, stripes')
       ELSE /\ IF Invalidates(f.now, f.prevOldest)
               THEN UNCHANGED <<pc, frame, cells>>
               ELSE Return(t, cells, stripes)
            /\ UNCHANGED stripes
    /\ UNCHANGED <<stripeMu, matchers, lastMatchersUpdate, mu, env, ghost>>

\* ------------------------------------------------------------ Active
\* Active: c.mu.Lock(), purgeTime := c.now().Add(-c.timeout), then c.purge.
Active(t) ==
    /\ t \in Admins
    /\ MayCall(t)
    /\ mu = NoThread
    /\ mu' = t
    /\ \E now \in env.clock :
          frame' = [frame EXCEPT ![t] = [ZeroFrame EXCEPT !.keepUntil = now - IdleTimeout]]
    /\ pc' = [pc EXCEPT ![t] = "purge"]
    /\ ghost' = GhostCall("Active", <<>>)
    /\ UNCHANGED <<stripes, stripeMu, cells, matchers, lastMatchersUpdate, env>>

\* c.purge's loop goes on to the next stripe; after the last one Active sets
\* total := 0 and totalMatching := resizeAndClear(len(c.matchers.MatcherNames()), nil).
AfterStripe(t, f) ==
    IF f.s + 1 < numActiveSeriesStripes
    THEN /\ frame' = [frame EXCEPT ![t] = [ZeroFrame EXCEPT !.keepUntil = f.keepUntil,
                                                          !.s = f.s + 1]]
         /\ pc' = [pc EXCEPT ![t] = "purge"]
    ELSE /\ frame' = [frame EXCEPT ![t] =
                        [ZeroFrame EXCEPT !.keepUntil = f.keepUntil,
                                          !.totalMatching =
                                              resizeAndClear(Len(MatcherNames(matchers)), <<>>)]]
         /\ pc' = [pc EXCEPT ![t] = "getTotalAndUpdateMatching"]

\* A shortcut taken whenever the oldest timestamp is known.
OldestKnown(oldest, keepUntil) == oldest > 0

\* The shortcut of purge: oldest > 0 && keepUntilNanos <= oldest
NothingToDo(oldest, keepUntil) == oldest > 0 /\ keepUntil <= oldest

\* activeSeriesStripe.purge, oldest := s.oldestEntryTs.Load()
purge(t) ==
    LET f == frame[t] IN
    /\ pc[t] = "purge"
    /\ IF NothingToDo(stripes[f.s].oldestEntryTs, f.keepUntil)
       THEN AfterStripe(t, f)
       ELSE /\ pc' = [pc EXCEPT ![t] = "purgeLock"]
            /\ UNCHANGED frame
    /\ UNCHANGED <<stripes, stripeMu, cells, matchers, lastMatchersUpdate, mu, env, ghost>>

\* purge, s.mu.Lock() and the locals.  resizeAndClear zeroes s.activeMatching
\* in place (its capacity is never below its length), so the local
\* activeMatching and s.activeMatching are the same slice from here on.
purgeLock(t) ==
    LET f == frame[t] IN
    /\ pc[t] = "purgeLock"
    /\ stripeMu[f.s] = NoThread
    /\ stripeMu' = [stripeMu EXCEPT ![f.s] = t]
    /\ stripes' = [stripes EXCEPT ![f.s].activeMatching =
                                      resizeAndClear(Len(@), @)]
    /\ frame' = [frame EXCEPT ![t].active = 0,
                              ![t].oldest = MaxInt64,
                              ![t].todo = DOMAIN stripes[f.s].refs,
                              ![t].before = IF env.serial THEN Snapshot(stripes[f.s].refs)
                                                          ELSE <<>>]
    /\ pc' = [pc EXCEPT ![t] = "purgeRange"]
    /\ UNCHANGED <<cells, matchers, lastMatchersUpdate, mu, env, ghost>>

\* purge, the next iteration of `for fp, entries := range s.refs` (in any
\* order) and the load of its first entry's timestamp.
purgeRange(t) ==
    LET f == frame[t] IN
    /\ pc[t] = "purgeRange"
    /\ f.todo # {}
    /\ \E fp \in f.todo :
          LET entries == stripes[f.s].refs[fp] IN
          frame' = [frame EXCEPT ![t].todo = f.todo \ {fp},
                                 ![t].fp = fp,
                                 ![t].entries = entries,
                                 ![t].single = (Len(entries) = 1),
                                 ![t].i = 0,
                                 ![t].ts = cells[entries[1].nanos]]
    /\ pc' = [pc EXCEPT ![t] = "purgeEntry"]
    /\ UNCHANGED <<stripes, stripeMu, cells, matchers, lastMatchersUpdate, mu, env, ghost>>

\* purge, ts := entries[i].nanos.Load() of the collision loop.
purgeLoad(t) ==
    LET f == frame[t] IN
    /\ pc[t] = "purgeLoad"
    /\ frame' = [frame EXCEPT ![t].ts = cells[f.entries[f.i + 1].nanos]]
    /\ pc' = [pc EXCEPT ![t] = "purgeEntry"]
    /\ UNCHANGED <<stripes, stripeMu, cells, matchers, lastMatchersUpdate, mu, env, ghost>>

\* An expiry test that also lets go of the entry that holds the cutoff.
ExpiredOrAtCutoff(ts, keepUntil) == ts <= keepUntil

\* if ts < keepUntilNanos: the entry has expired
Expired(ts, keepUntil) == ts < keepUntil

\* A removal that drops the last entry of the chain, whatever i is.
RemoveLast(entries, i) == SubSeq(entries, 1, Len(entries) - 1)

\* entries = append(entries[:i], entries[i+1:]...), i counted from 0
RemoveAt(entries, i) ==
    [k \in 1..(Len(entries) - 1) |-> IF k <= i THEN entries[k] ELSE entries[k + 1]]

\* A count that stops after the first entry of the chain.
AddHeadMatching(activeMatching, entries) ==
    IF entries = <<>> THEN activeMatching
    ELSE AddMatching(activeMatching, Head(entries).matches)

RECURSIVE AddAllMatching(_, _)
\* for i := range entries { for i, ok := range entries[i].matches { ... } }
AddAllMatching(activeMatching, entries) ==
    IF entries = <<>> THEN activeMatching
    ELSE AddAllMatching(AddMatching(activeMatching, Head(entries).matches), Tail(entries))

\* purge, what it does with the timestamp it has loaded.
purgeEntry(t) ==
    LET f == frame[t]
        st == stripes[f.s]
        expired == Expired(f.ts, f.keepUntil)
        oldest == IF ~expired /\ f.ts < f.oldest THEN f.ts ELSE f.oldest
        entries == IF expired THEN RemoveAt(f.entries, f.i) ELSE f.entries
        i == IF expired THEN f.i ELSE f.i + 1 IN
    /\ pc[t] = "purgeEntry"
    /\ IF f.single
       THEN \* the optimized implementation for the common case
            /\ stripes' = IF expired
                          THEN [stripes EXCEPT ![f.s].refs = Delete(@, f.fp)]
                          ELSE [stripes EXCEPT ![f.s].activeMatching =
                                                  AddMatching(@, f.entries[1].matches)]
            /\ frame' = [frame EXCEPT ![t].active = IF expired THEN @ ELSE @ + 1,
                                      ![t].oldest = oldest,
                                      ![t].entries = <<>>,
                                      ![t].ts = 0]
            /\ pc' = [pc EXCEPT ![t] = "purgeRange"]
       ELSE IF i < Len(entries)
       THEN /\ frame' = [frame EXCEPT ![t].entries = entries,
                                      ![t].i = i,
                                      ![t].oldest = oldest,
                                      ![t].ts = 0]
            /\ pc' = [pc EXCEPT ![t] = "purgeLoad"]
            /\ UNCHANGED stripes
       ELSE \* either update or delete the entries in the map
            /\ stripes' = IF Len(entries) = 0
                          THEN [stripes EXCEPT ![f.s].refs = Delete(@, f.fp)]
                          ELSE [stripes EXCEPT ![f.s].refs = Put(@, f.fp, entries),
                                               ![f.s].activeMatching =
                                                   AddAllMatching(@, entries)]
            /\ frame' = [frame EXCEPT ![t].active = @ + Len(entries),
                                      ![t].oldest = oldest,
                                      ![t].entries = <<>>,
                                      ![t].i = 0,
                                      ![t].ts = 0]
            /\ pc' = [pc EXCEPT ![t] = "purgeRange"]
    /\ cells' = Collect(cells, stripes', frame')
    /\ UNCHANGED <<stripeMu, matchers, lastMatchersUpdate, mu, env, ghost>>

\* An unlock that is forgotten.
NoUnlock(mus, s) == mus

\* defer s.mu.Unlock() of purge
Unlock(mus, s) == [mus EXCEPT ![s] = NoThread]

\* purge, after the loop: the new oldestEntryTs and active, and the deferred
\* s.mu.Unlock().
purgeCommit(t) ==
    LET f == frame[t] IN
    /\ pc[t] = "purgeRange"
    /\ f.todo = {}
    /\ stripes' = [stripes EXCEPT
                      ![f.s].oldestEntryTs = IF f.oldest = MaxInt64 THEN 0 ELSE f.oldest,
                      ![f.s].active = f.active]
    /\ stripeMu' = Unlock(stripeMu, f.s)
    /\ AfterStripe(t, f)
    /\ UNCHANGED <<cells, matchers, lastMatchersUpdate, mu, env, ghost>>

\* matching[i] += a for i, a := range s.activeMatching
AddInto(matching, activeMatching) ==
    [i \in DOMAIN matching |->
        IF i \in DOMAIN activeMatching THEN matching[i] + activeMatching[i]
                                       ELSE matching[i]]

\* getTotalAndUpdateMatching: under the stripe's read lock.  An index of
\* s.activeMatching outside matching panics; the deferred unlocks run.
getTotalAndUpdateMatching(t) ==
    LET f == frame[t]
        st == stripes[f.s] IN
    /\ pc[t] = "getTotalAndUpdateMatching"
    /\ stripeMu[f.s] = NoThread
    /\ IF Len(st.activeMatching) > Len(f.totalMatching)
       THEN /\ pc' = [pc EXCEPT ![t] = "panic"]
            /\ mu' = NoThread
            /\ UNCHANGED frame
       ELSE /\ frame' = [frame EXCEPT
                            ![t].totalMatching = AddInto(@, st.activeMatching),
                            ![t].total = @ + st.active,
                            ![t].s = IF f.s + 1 < numActiveSeriesStripes
                                     THEN f.s + 1 ELSE 0]
            /\ pc' = [pc EXCEPT ![t] = IF f.s + 1 < numActiveSeriesStripes
                                       THEN "getTotalAndUpdateMatching"
                                       ELSE "ActiveReturn"]
            /\ UNCHANGED mu
    /\ UNCHANGED <<stripes, stripeMu, cells, matchers, lastMatchersUpdate, env, ghost>>

\* Active, return total, totalMatching, purgeTime.After(c.lastMatchersUpdate)
\* and the deferred c.mu.Unlock().
ActiveReturn(t) ==
    LET f == frame[t] IN
    /\ pc[t] = "ActiveReturn"
    /\ frame' = [frame EXCEPT ![t].valid = After(f.keepUntil, lastMatchersUpdate)]
    /\ mu' = NoThread
    /\ pc' = [pc EXCEPT ![t] = "returned"]
    /\ UNCHANGED <<stripes, stripeMu, cells, matchers, lastMatchersUpdate, env, ghost>>

\* The caller has the results of its call and goes on.
Resume(t) ==
    /\ pc[t] = "returned"
    /\ Return(t, cells, stripes)
    /\ ghost' = [ghost EXCEPT !.hist = NoHist]
    /\ UNCHANGED <<stripes, stripeMu, matchers, lastMatchersUpdate, mu, env>>

\* ------------------------------------------------------------ ReloadMatchers
\* ReloadMatchers(asm): c.mu.Lock()
ReloadMatchers(t) ==
    /\ t \in Admins
    /\ MayCall(t)
    /\ mu = NoThread
    /\ mu' = t
    /\ \E asm \in MatcherSets :
          /\ frame' = [frame EXCEPT ![t] = [ZeroFrame EXCEPT !.asm = asm]]
          /\ ghost' = GhostCall("ReloadMatchers", asm)
    /\ pc' = [pc EXCEPT ![t] = "reinitialize"]
    /\ UNCHANGED <<stripes, stripeMu, cells, matchers, lastMatchersUpdate, env>>

\* A reinitialize that resets the matchers only and keeps the series.
ReinitializedMatchersOnly(st, asm) ==
    [st EXCEPT !.matchers = asm,
               !.activeMatching = resizeAndClear(Len(MatcherNames(asm)), st.activeMatching)]

\* A reinitialize that zeroes activeMatching as clear does, at its old length.
ReinitializedWithoutResize(st, asm) ==
    [oldestEntryTs |-> 0,
     refs |-> <<>>,
     active |-> 0,
     matchers |-> asm,
     activeMatching |-> [i \in DOMAIN st.activeMatching |-> 0]]

\* The stripe after reinitialize(asm).
Reinitialized(st, asm) ==
    [oldestEntryTs |-> 0,
     refs |-> <<>>,
     active |-> 0,
     matchers |-> asm,
     activeMatching |-> resizeAndClear(Len(MatcherNames(asm)), st.activeMatching)]

\* activeSeriesStripe.reinitialize(asm): under the stripe's write lock.
reinitialize(t) ==
    LET f == frame[t] IN
    /\ pc[t] = "reinitialize"
    /\ stripeMu[f.s] = NoThread
    /\ stripes' = [stripes EXCEPT ![f.s] = Reinitialized(@, f.asm)]
    /\ frame' = [frame EXCEPT ![t].s = IF f.s + 1 < numActiveSeriesStripes
                                       THEN f.s + 1 ELSE 0]
    /\ pc' = [pc EXCEPT ![t] = IF f.s + 1 < numActiveSeriesStripes
                               THEN "reinitialize" ELSE "ReloadReturn"]
    /\ cells' = Collect(cells, stripes', frame')
    /\ UNCHANGED <<stripeMu, matchers, lastMatchersUpdate, mu, env, ghost>>

\* ReloadMatchers, c.matchers = asm, c.lastMatchersUpdate = c.now() and the
\* deferred c.mu.Unlock().
ReloadReturn(t) ==
    LET f == frame[t] IN
    /\ pc[t] = "ReloadReturn"
    /\ matchers' = f.asm
    /\ \E now \in env.clock : lastMatchersUpdate' = now
    /\ mu' = NoThread
    /\ Return(t, cells, stripes)
    /\ UNCHANGED <<stripes, stripeMu, env, ghost>>

\* ------------------------------------------------------------ clear
\* ActiveSeries.clear()
Clear(t) ==
    /\ t \in Admins
    /\ MayCall(t)
    /\ frame' = [frame EXCEPT ![t] = ZeroFrame]
    /\ pc' = [pc EXCEPT ![t] = "clear"]
    /\ ghost' = GhostCall("clear", <<>>)
    /\ UNCHANGED <<stripes, stripeMu, cells, matchers, lastMatchersUpdate, mu, env>>

\* activeSeriesStripe.clear(): under the stripe's write lock.
clear(t) ==
    LET f == frame[t]
        last == ~(f.s + 1 < numActiveSeriesStripes) IN
    /\ pc[t] = "clear"
    /\ stripeMu[f.s] = NoThread
    /\ stripes' = [stripes EXCEPT ![f.s].oldestEntryTs = 0,
                                  ![f.s].refs = <<>>,
                                  ![f.s].active = 0,
                                  ![f.s].activeMatching = [i \in DOMAIN @ |-> 0]]
    /\ frame' = [frame EXCEPT ![t].s = IF last THEN 0 ELSE f.s + 1]
    /\ pc' = [pc EXCEPT ![t] = IF last THEN "idle" ELSE "clear"]
    /\ cells' = Collect(cells, stripes', frame')
    /\ UNCHANGED <<stripeMu, matchers, lastMatchersUpdate, mu, env, ghost>>

\* ------------------------------------------------------------ specification
Next ==
    \E t \in Threads :
        \/ UpdateSeries(t)
        \/ findOrCreateEntryForSeries(t)
        \/ loadEntry(t)
        \/ casEntry(t)
        \/ loadOldest(t)
        \/ casOldest(t)
        \/ Active(t)
        \/ purge(t)
        \/ purgeLock(t)
        \/ purgeRange(t)
        \/ purgeLoad(t)
        \/ purgeEntry(t)
        \/ purgeCommit(t)
        \/ getTotalAndUpdateMatching(t)
        \/ ActiveReturn(t)
        \/ Resume(t)
        \/ ReloadMatchers(t)
        \/ reinitialize(t)
        \/ ReloadReturn(t)
        \/ Clear(t)
        \/ clear(t)

\* The steps of UpdateSeries when nothing else is called: no purge sets
\* oldestEntryTs then, so loadOldest finds nothing to invalidate and casOldest
\* is never reached.
WriterNext ==
    \E t \in Writers :
        \/ UpdateSeries(t)
        \/ findOrCreateEntryForSeries(t)
        \/ loadEntry(t)
        \/ casEntry(t)
        \/ loadOldest(t)

\* Goroutines that call concurrently.
Spec == Init /\ [][Next]_vars

\* Goroutines that contend for c.mu and for the stripes' locks.
LockSpec == LockInit /\ [][Next]_vars

\* Goroutines that call concurrently, with any times for one series.
TimeSpec == TimeInit /\ [][Next]_vars

\* Callers that make one call at a time.
SeqSpec == SeqInit /\ [][Next]_vars

\* Writers that race on one series, and no other call.
WriterSpec == WriterInit /\ [][WriterNext]_vars

\* ------------------------------------------------------------ properties
\* The timestamp stored for a series (0 when the series is not tracked).
Tracked(series) ==
    Lookup(Chain(stripes[StripeID(series)].refs, Hash(series)), series) # NilPtr

Stored(series) ==
    LET e == Lookup(Chain(stripes[StripeID(series)].refs, Hash(series)), series) IN
    IF e = NilPtr THEN 0 ELSE cells[e]

Zeroes(n) == [i \in 1..n |-> 0]

\* An Active call of a serial caller has returned its results.
Returned(t) == env.serial /\ pc[t] = "returned"

\* C1: when only UpdateSeries has been called since NewActiveSeries, for N
\* distinct series, and Active's cutoff is not after the earliest of the
\* times used, Active returns total = N and, for each matcher, the number of
\* those series that the matcher matches.
C1_ActiveCountsEverySeries ==
    \A t \in Admins :
        (Returned(t) /\ ghost.hist.fresh /\ frame[t].keepUntil <= ghost.hist.minNow)
        => /\ frame[t].total = Cardinality(ghost.hist.seen)
           /\ frame[t].totalMatching =
                 [i \in 1..Len(matchers) |->
                     Cardinality({l \in ghost.hist.seen : l \in matchers[i]})]

\* Active has returned after UpdateSeries calls for every series, its cutoff
\* being the earliest time used.
C1_Witness ==
    \E t \in Admins :
        /\ Returned(t)
        /\ ghost.hist.fresh
        /\ ghost.hist.seen = Series
        /\ frame[t].keepUntil = ghost.hist.minNow

\* What a purge with cutoff keepUntil is to leave of the chains `before`.
KeptOf(before, keepUntil) ==
    LET Kept(x) == x.ts >= keepUntil
        left == [fp \in DOMAIN before |-> SelectSeq(before[fp], Kept)] IN
    [fp \in {k \in DOMAIN before : left[k] # <<>>} |-> left[fp]]

\* The slow path of purge has gone through all the chains of the stripe.
PurgeDone(t) == env.serial /\ pc[t] = "purgeRange" /\ frame[t].todo = {}

\* C2: the slow path of purge removes exactly the entries whose timestamp is
\* less than keepUntil, and leaves the others as they were, in their order.
C2_PurgeRemovesExactlyTheExpired ==
    \A t \in Admins :
        PurgeDone(t)
        => Snapshot(stripes[frame[t].s].refs) = KeptOf(frame[t].before, frame[t].keepUntil)

\* The slow path has filtered a collision chain of which one entry had
\* expired and the other held exactly keepUntil, next to a chain of one entry.
C2_Witness ==
    \E t \in Admins :
        /\ PurgeDone(t)
        /\ \E fp \in DOMAIN frame[t].before :
              /\ Len(frame[t].before[fp]) = 2
              /\ frame[t].before[fp][1].ts < frame[t].keepUntil
              /\ frame[t].before[fp][2].ts = frame[t].keepUntil
        /\ \E fp \in DOMAIN frame[t].before : Len(frame[t].before[fp]) = 1

\* C3: an Active call whose cutoff is after every stored timestamp returns
\* total = 0 and no series for any matcher.
C3_ActiveAfterEverythingIsEmpty ==
    \A t \in Admins :
        (Returned(t) /\ frame[t].keepUntil > ghost.call.base)
        => /\ frame[t].total = 0
           /\ frame[t].totalMatching = Zeroes(Len(matchers))

\* Active has returned with a cutoff after the newest of the timestamps
\* stored, in a tracker that an earlier Active had purged.
C3_Witness ==
    \E t \in Admins :
        /\ Returned(t)
        /\ ghost.call.base > 0
        /\ frame[t].keepUntil > ghost.call.base
        /\ ~ghost.hist.fresh

\* A step of the UpdateSeries call that goroutine t is in.
WriterStep(t) ==
    \/ findOrCreateEntryForSeries(t)
    \/ loadEntry(t)
    \/ casEntry(t)
    \/ loadOldest(t)
    \/ casOldest(t)

\* C4: an UpdateSeries call always has a step to take that brings it on, when
\* no other call is in flight (so that no lock is held).
C4_UpdateSeriesTerminates ==
    \A t \in Writers :
        (pc[t] # "idle" /\ \A u \in Threads \ {t} : pc[u] = "idle")
        => ENABLED <<WriterStep(t)>>_vars

\* C5: after writers have raced on a tracked series, with no other call, the
\* stored timestamp is the newest of the one stored before and of their times.
C5_RacingWritersReachTheMaximum ==
    (Quiet /\ ghost.race.calls = 2)
    => Stored(ghost.race.series) = Max({ghost.race.base, ghost.race.maxNow})

\* The last call was UpdateSeries, of a serial caller, for a series that was
\* tracked, and it has returned.
UpdateDone == env.serial /\ Quiet /\ ghost.call.op = "UpdateSeries" /\ ghost.call.existed

\* C6: UpdateSeries(labels, t) on an entry that holds p leaves max(p, t) in it.
C6_UpdateSeriesStoresTheMaximum ==
    UpdateDone
    => /\ Tracked(ghost.call.series)
       /\ Stored(ghost.call.series) = Max({ghost.call.base, ghost.call.now})

\* UpdateSeries has returned from a call with a time before the stored one.
C6_Witness == UpdateDone /\ ghost.call.now < ghost.call.base

\* C7: the entry that purge is about to remove holds a timestamp before
\* keepUntil at that moment.
C7_PurgeRemovesNoLiveEntry ==
    \A t \in Admins :
        (pc[t] = "purgeEntry" /\ frame[t].ts < frame[t].keepUntil)
        => cells[frame[t].entries[frame[t].i + 1].nanos] < frame[t].keepUntil

\* C8: the Active call that follows ReloadMatchers(M) returns total = 0 and,
\* for each matcher of M, no series.
C8_ActiveAfterReloadIsEmpty ==
    \A t \in Admins :
        (Returned(t) /\ ghost.call.afterReload)
        => /\ frame[t].total = 0
           /\ frame[t].totalMatching = Zeroes(Len(ghost.call.asm))

\* Active has returned after a ReloadMatchers that found series in the tracker.
C8_Witness ==
    \E t \in Admins :
        /\ Returned(t)
        /\ ghost.call.afterReload
        /\ ghost.call.prior > 0
        /\ Len(ghost.call.asm) = 2

\* C9: Active returns valid = TRUE exactly when its cutoff is after the time
\* of the last ReloadMatchers.
C9_ValidIffCutoffAfterReload ==
    \A t \in Admins :
        Returned(t) => (frame[t].valid <=> frame[t].keepUntil > lastMatchersUpdate)

\* Active has returned with a cutoff that is the time of the last reload.
C9_Witness ==
    \E t \in Admins : Returned(t) /\ frame[t].keepUntil = lastMatchersUpdate

\* C10: an UpdateSeries call with the arguments of the UpdateSeries call
\* before it changes nothing in the tracker.
C10_UpdateSeriesIsIdempotent ==
    [][(env.serial /\ ghost'.call.repeat) => (stripes' = stripes /\ cells' = cells)]_vars

\* The second of two equal UpdateSeries calls has returned, the first having
\* inserted the series.
C10_Witness == env.serial /\ Quiet /\ ghost.call.repeat /\ ghost.call.prior = 0

\* A step of the Active, ReloadMatchers or clear call that goroutine t is in.
AdminStep(t) ==
    \/ purge(t)
    \/ purgeLock(t)
    \/ purgeRange(t)
    \/ purgeLoad(t)
    \/ purgeEntry(t)
    \/ purgeCommit(t)
    \/ getTotalAndUpdateMatching(t)
    \/ ActiveReturn(t)
    \/ Resume(t)
    \/ reinitialize(t)
    \/ ReloadReturn(t)
    \/ clear(t)

\* Goroutine t is in a call.
InCall(t) == pc[t] \notin {"idle", "panic"}

\* The stripes whose write lock goroutine t holds.
Held(t) == {s \in Stripes : stripeMu[s] = t}

\* C11: a goroutine holds at most one stripe lock, and while it holds one its
\* next step takes no lock; c.mu is held by no writer, and only by a goroutine
\* that is in a call; and a goroutine in a call that cannot take its next step
\* waits for a stripe lock whose holder can take its next step, so that no
\* interleaving of the calls ends in a deadlock.
C11_LocksInOrderAndNoDeadlock ==
    /\ mu \in {NoThread} \cup Admins
    /\ mu # NoThread => InCall(mu)
    /\ \A t \in Threads :
          /\ Cardinality(Held(t)) <= 1
          /\ Held(t) # {} => /\ mu = t
                             /\ pc[t] \in {"purgeRange", "purgeLoad", "purgeEntry"}
          /\ (InCall(t) /\ ~ENABLED (WriterStep(t) \/ AdminStep(t)))
             => LET h == stripeMu[frame[t].s] IN
                /\ h \in Threads \ {t}
                /\ ENABLED AdminStep(h)

\* A writer and a goroutine in clear both wait for the lock of a stripe that
\* the goroutine in Active holds, together with c.mu.
C11_Witness ==
    \E a \in Admins, b \in Admins, w \in Writers :
        /\ mu = a
        /\ Held(a) # {}
        /\ pc[w] = "findOrCreateEntryForSeries"
        /\ frame[w].s \in Held(a)
        /\ pc[b] = "clear"
        /\ frame[b].s \in Held(a)

\* The entries of a stripe: <<fp, i>> for the i-th entry of the chain of fp.
EntryIndex(refs) == {x \in (DOMAIN refs) \X (1..NumSeries) : x[2] <= Len(refs[x[1]])}

\* C12 (I1): while the write lock of a stripe is not held, the stripe's active
\* is the number of entries in its chains.
C12_ActiveIsTheNumberOfEntries ==
    \A s \in Stripes :
        stripeMu[s] = NoThread
        => stripes[s].active = Cardinality(EntryIndex(stripes[s].refs))

\* A purge has gone through a stripe, which holds a collision chain of two
\* entries now, and a writer is about to take the lock to insert.
C12_Witness ==
    \E s \in Stripes : \E fp \in DOMAIN stripes[s].refs :
        /\ stripeMu[s] = NoThread
        /\ stripes[s].oldestEntryTs > 0
        /\ Len(stripes[s].refs[fp]) = 2

\* C13 (I2): while the write lock of a stripe is not held, activeMatching[i] is
\* the number of its entries whose matches[i] is true, for every matcher i.
C13_ActiveMatchingCountsTheMatches ==
    \A s \in Stripes :
        stripeMu[s] = NoThread
        => stripes[s].activeMatching =
              [i \in 1..Len(stripes[s].activeMatching) |->
                  Cardinality({x \in EntryIndex(stripes[s].refs) :
                                  /\ i \in DOMAIN stripes[s].refs[x[1]][x[2]].matches
                                  /\ stripes[s].refs[x[1]][x[2]].matches[i]})]

\* A purge has filtered a collision chain and has left two entries in it, which
\* both match the second of two matchers.
C13_Witness ==
    \E s \in Stripes : \E fp \in DOMAIN stripes[s].refs :
        /\ stripeMu[s] = NoThread
        /\ stripes[s].oldestEntryTs > 0
        /\ Len(stripes[s].refs[fp]) = 2
        /\ stripes[s].activeMatching = <<1, 2>>

\* The timestamps stored in the entries of stripe s.
TimesOf(s) ==
    {cells[stripes[s].refs[x[1]][x[2]].nanos] : x \in EntryIndex(stripes[s].refs)}

\* C14 (I3): in every reachable state, oldestEntryTs of a stripe is 0 or is no
\* newer than the oldest timestamp stored in the stripe.
C14_OldestIsNoNewerThanTheEntries ==
    \A s \in Stripes :
        \/ stripes[s].oldestEntryTs = 0
        \/ \A ts \in TimesOf(s) : stripes[s].oldestEntryTs <= ts

\* C15: when purge takes the shortcut, no entry of the stripe holds a
\* timestamp before keepUntil.
C15_ShortcutSkipsNoExpiredEntry ==
    \A t \in Admins :
        (pc[t] = "purge" /\ NothingToDo(stripes[frame[t].s].oldestEntryTs, frame[t].keepUntil))
        => \A ts \in TimesOf(frame[t].s) : ts >= frame[t].keepUntil

\* The entries of stripe s whose labels equal series.
EntriesOf(s, series) ==
    {x \in EntryIndex(stripes[s].refs) : stripes[s].refs[x[1]][x[2]].lbs = series}

\* C16 (I5): no chain holds two entries with equal labels, labelsCopy is called
\* at most once, and when writers that have missed a series that was not
\* tracked have all returned, there is one entry for it, made by one call of
\* labelsCopy, and active is 1.
C16_RacingFirstObservationsInsertOnce ==
    /\ \A s \in Stripes, series \in Series : Cardinality(EntriesOf(s, series)) <= 1
    /\ ghost.first.copies <= 1
    /\ (env.race /\ Quiet /\ ghost.first.misses > 0)
       => /\ ghost.first.copies = 1
          /\ \A series \in env.series :
                /\ Cardinality(EntriesOf(StripeID(series), series)) = 1
                /\ stripes[StripeID(series)].active = 1

\* Two writers have both missed the series under the read lock, and both have
\* returned.
C16_Witness == env.race /\ Quiet /\ ghost.first.misses = 2

\* C17 (I6): while the write lock of a stripe is not held, the matches of each
\* of its entries, its activeMatching and the names of its matchers have the
\* same length; and while Active sums the stripes, every stripe's
\* activeMatching has the length of the names of c.matchers, as has the slice
\* that Active adds into, so that no index is out of range.
C17_MatchVectorsHaveTheMatchersLength ==
    /\ \A s \in Stripes :
          stripeMu[s] = NoThread
          => /\ Len(stripes[s].activeMatching) = Len(MatcherNames(stripes[s].matchers))
             /\ \A x \in EntryIndex(stripes[s].refs) :
                   Len(stripes[s].refs[x[1]][x[2]].matches) = Len(stripes[s].activeMatching)
    /\ \A t \in Admins :
          /\ pc[t] # "panic"
          /\ pc[t] = "getTotalAndUpdateMatching"
             => /\ Len(frame[t].totalMatching) = Len(MatcherNames(matchers))
                /\ \A s \in Stripes :
                      Len(stripes[s].activeMatching) = Len(MatcherNames(matchers))

\* ReloadMatchers has reinitialized a stripe for matchers of another length
\* than c.matchers, which it has not replaced yet, and a writer has inserted a
\* series into that stripe since.
C17_Witness ==
    \E t \in Admins, s \in Stripes :
        /\ pc[t] \in {"reinitialize", "ReloadReturn"}
        /\ stripeMu[s] = NoThread
        /\ stripes[s].refs # <<>>
        /\ Len(MatcherNames(stripes[s].matchers)) # Len(MatcherNames(matchers))

\* Goroutine t takes a step.
Steps(t) == pc'[t] # pc[t] \/ frame'[t] # frame[t]

\* C18: no step lowers the timestamp that an entry holds, whatever the times
\* of the UpdateSeries calls in flight and however they interleave; and a step
\* that sets a stripe's oldestEntryTs to a value other than 0 is the end of
\* purge for that stripe, never a step of UpdateSeries.
C18_TimestampsNeverDecrease ==
    [][/\ \A p \in DOMAIN cells \cap DOMAIN cells' : cells'[p] >= cells[p]
       /\ \A s \in Stripes :
             stripes'[s].oldestEntryTs \notin {0, stripes[s].oldestEntryTs}
             => /\ \A t \in Writers : ~Steps(t)
                /\ \E t \in Admins : /\ pc[t] = "purgeRange"
                                     /\ frame[t].s = s
                                     /\ frame[t].todo = {}]_vars

\* A writer is about to compare-and-swap in a time that is before the one the
\* entry holds by now, in a stripe whose oldestEntryTs purge has set.
C18_Witness ==
    \E t \in Writers :
        /\ pc[t] = "casEntry"
        /\ cells[frame[t].e] > frame[t].now
        /\ stripes[frame[t].s].oldestEntryTs > 0

\* Writer t has found the entry of its series and is at the point where its
\* call turns out not to advance the timestamp: its time is not after the one
\* stored, or the timestamp is no longer the one it loaded.
NoAdvance(t) ==
    \/ pc[t] = "loadEntry" /\ frame[t].now <= cells[frame[t].e]
    \/ pc[t] = "casEntry" /\ cells[frame[t].e] # frame[t].prev

\* C19: the step by which an UpdateSeries call for a tracked series finds that
\* its time is not after the stored one, or loses its compare-and-swap, ends
\* the call and changes nothing in any stripe: the chains, active,
\* activeMatching and oldestEntryTs are as before, and so is the timestamp of
\* every entry.
C19_UpdateWithoutAdvanceChangesNothing ==
    [][\A t \in Writers :
          (NoAdvance(t) /\ Steps(t))
          => /\ pc'[t] = "idle"
             /\ stripes' = stripes
             /\ \A s \in Stripes : \A x \in EntryIndex(stripes[s].refs) :
                   LET p == stripes[s].refs[x[1]][x[2]].nanos IN
                   p \in DOMAIN cells' /\ cells'[p] = cells[p]]_vars

\* A writer has lost the compare-and-swap: another writer has advanced the
\* timestamp of the entry, which is in its chain still, and purge has set the
\* stripe's oldestEntryTs since.
C19_Witness ==
    \E t \in Writers :
        /\ pc[t] = "casEntry"
        /\ cells[frame[t].e] # frame[t].prev
        /\ frame[t].e \in EntryCells(Chain(stripes[frame[t].s].refs, frame[t].fp))
        /\ stripes[frame[t].s].oldestEntryTs > 0

\* C20: while the write lock of a stripe is not held, the matches of each of
\* its entries are what the stripe's matchers give for the entry's labels: an
\* entry made under matchers that ReloadMatchers has replaced is gone, and a
\* series seen again after its entry was purged or dropped has a new entry
\* made under the matchers of that time.
C20_MatchesAreOfTheCurrentMatchers ==
    \A s \in Stripes :
        stripeMu[s] = NoThread
        => \A x \in EntryIndex(stripes[s].refs) :
              LET e == stripes[s].refs[x[1]][x[2]] IN
              e.matches = Matches(stripes[s].matchers, e.lbs)

\* A writer still points to the entry that its series had before
\* ReloadMatchers dropped it, and the series, seen again, has a new entry in a
\* stripe whose matchers are not the ones the tracker was made with.
C20_Witness ==
    \E t \in Writers :
        LET f == frame[t]
            e == Lookup(Chain(stripes[f.s].refs, f.fp), f.series) IN
        /\ pc[t] = "loadEntry"
        /\ stripeMu[f.s] = NoThread
        /\ e \notin {NilPtr, f.e}
        /\ stripes[f.s].matchers = RangeMatchers

====
